---- MODULE Spec2Model ----
(***************************************************************************)
(* Model of the notes backend (convex/notes.ts, convex/schema.ts): the     *)
(* notes and noteShares tables, the getNote / getSharedNotes queries and   *)
(* the createNote / updateNote / deleteNote / shareNote mutations.  Every  *)
(* mutation is one store transaction, hence one action.                    *)
(***************************************************************************)
EXTENDS FiniteSets, Integers, Sequences, TLC

(* Bounds of the model. *)
MaxNotes == 2
MaxClock == 1
MaxBlocks == 2

VARIABLES notes, noteShares, nextNoteId, clock, lastSearch, granted

vars == <<notes, noteShares, nextNoteId, clock, lastSearch, granted>>

(***************************************************************************)
(* Values.  An optional value (v.optional, a possibly undefined argument)  *)
(* is <<>> when absent and <<x>> when present.                             *)
(***************************************************************************)
None == <<>>

Some(x) == <<x>>

Null == [isNull |-> TRUE]

TooMany == [tooMany |-> TRUE]

NoUser == "null"

(* The users table of the auth library: name and email are optional. *)
users ==
  [u1 |-> [name |-> Some("Ann"), email |-> Some("ann@x")],
   u2 |-> [name |-> None,        email |-> Some("bob@x")]]

UserIds == DOMAIN users

Requesters == UserIds \cup {NoUser}

NoteIds == 1..MaxNotes

Emails == {"ann@x", "bob@x", "nobody@x"}

Permissions == {"read", "write"}

CreateArgs ==
  [title : {"T"}, content : {None, Some("foo")}, isPublic : {None, Some(TRUE), Some(FALSE)}]

UpdateArgs ==
  [noteId : NoteIds, title : {None, Some("x")}, content : {None, Some("foo")},
   isPublic : {None, Some(TRUE), Some(FALSE)}]

ShareArgs == [noteId : NoteIds, email : Emails, permission : Permissions]

(* A query string, as its sequence of tokens: a blank or a word. *)
Queries ==
  {<<>>, <<" ">>, <<" ", " ">>, <<"foo">>, <<" ", "foo">>, <<"foo", " ">>, <<"bar">>}

(***************************************************************************)
(* Store primitives.                                                       *)
(***************************************************************************)
(* ctx.db.get(noteId) *)
get(db, noteId) == IF noteId \in DOMAIN db.notes THEN db.notes[noteId] ELSE Null

(* Mutant: the index lookup forgets the note and matches the user alone. *)
by_note_and_user_userOnly(db, noteId, userId) ==
  LET Match(s) == s.sharedWithId = userId
  IN  SelectSeq(db.noteShares, Match)

(* .withIndex("by_note_and_user", q => q.eq("noteId", n).eq("sharedWithId", u)) *)
by_note_and_user(db, noteId, userId) ==
  LET Match(s) == s.noteId = noteId /\ s.sharedWithId = userId
  IN  SelectSeq(db.noteShares, Match)

(* Mutant: the index returns the shares of every note. *)
by_note_everyNote(db, noteId) == db.noteShares

(* .withIndex("by_note", q => q.eq("noteId", n)).collect() *)
by_note(db, noteId) ==
  LET Match(s) == s.noteId = noteId IN SelectSeq(db.noteShares, Match)

(* .withIndex("by_user", q => q.eq("sharedWithId", u)).collect() *)
by_user(db, userId) ==
  LET Match(s) == s.sharedWithId = userId IN SelectSeq(db.noteShares, Match)

(* .unique(): null for no row, the row for one, an error for more. *)
unique(rows) ==
  IF Len(rows) = 0 THEN Null ELSE IF Len(rows) = 1 THEN rows[1] ELSE TooMany

(* .withIndex("email", q => q.eq("email", e)).unique() on users *)
userByEmail(email) ==
  LET hits == {u \in UserIds : users[u].email = Some(email)}
  IN  IF hits = {} THEN Null
      ELSE IF Cardinality(hits) = 1 THEN [_id |-> CHOOSE u \in hits : TRUE] ELSE TooMany

(* author?.name || author?.email || fallback *)
authorName(authorId, fallback) ==
  LET author == users[authorId]
  IN  IF author.name # None THEN author.name[1]
      ELSE IF author.email # None THEN author.email[1] ELSE fallback

(* ctx.db.insert("noteShares", doc): the new document gets a fresh _id. *)
freshShareId(db) ==
  LET ids == {db.noteShares[i]._id : i \in DOMAIN db.noteShares}
  IN  IF ids = {} THEN 1 ELSE 1 + CHOOSE m \in ids : \A k \in ids : k <= m

insertShare(db, doc) ==
  [db EXCEPT !.noteShares = Append(@, [_id |-> freshShareId(db)] @@ doc)]

(* Mutant: the patch of an existing share is lost. *)
patchShare_lost(db, id, permission) == db

(* ctx.db.patch(share._id, {permission}) *)
patchShare(db, id, permission) ==
  [db EXCEPT !.noteShares =
     [i \in DOMAIN @ |-> IF @[i]._id = id THEN [@[i] EXCEPT !.permission = permission]
                         ELSE @[i]]]

(* Mutant: the cascade leaves the share rows in place. *)
deleteShare_kept(db, id) == db

(* ctx.db.delete(share._id) *)
deleteShare(db, id) ==
  LET Keep(s) == s._id # id
  IN  [db EXCEPT !.noteShares = SelectSeq(@, Keep)]

(* ctx.db.delete(noteId) *)
deleteNoteDoc(db, noteId) ==
  [db EXCEPT !.notes = [n \in DOMAIN @ \ {noteId} |-> @[n]]]

(* ctx.db.patch(noteId, updates): the fields of updates replace the note's. *)
patchNote(db, noteId, updates) ==
  [db EXCEPT !.notes[noteId] = updates @@ @]

(***************************************************************************)
(* Results of a call: a query returns a value or throws; a mutation        *)
(* returns the store it leaves and what its caller sees, the value it      *)
(* returned (error = "") or the message of the Error it threw.  A throw    *)
(* aborts the transaction, so the store is the one the call started from.  *)
(***************************************************************************)
Threw(msg) == [threw |-> msg]

Return(db, value) == [db |-> db, error |-> "", value |-> value]

Throw(db, msg) == [db |-> db, error |-> msg, value |-> None]

ErrUnique == "unique() query returned more than one result"

(***************************************************************************)
(* Queries.                                                                *)
(***************************************************************************)
(* .query("noteShares").withIndex("by_note_and_user", ...).unique() *)
shareOf(db, noteId, userId) == unique(by_note_and_user(db, noteId, userId))

(* Mutant: every signed-in requester may edit a public note. *)
publicCanEdit_anySignedIn(note, userId) == userId # NoUser

(* getNote, public branch: canEdit: userId === note.authorId *)
publicCanEdit(note, userId) == userId = note.authorId

getNote(db, userId, noteId) ==
  LET note == get(db, noteId) IN
  IF note = Null THEN Null
  ELSE IF note.isPublic
  THEN note @@ [authorName |-> authorName(note.authorId, "Anonymous"),
                canEdit |-> publicCanEdit(note, userId)]
  ELSE IF userId = NoUser THEN Null
  ELSE IF note.authorId = userId
  THEN note @@ [authorName |-> "You", canEdit |-> TRUE]
  ELSE LET share == shareOf(db, noteId, userId) IN
       IF share = TooMany THEN Threw(ErrUnique)
       ELSE IF share # Null
       THEN note @@ [authorName |-> authorName(note.authorId, "Unknown"),
                     canEdit |-> share.permission = "write"]
       ELSE Null

getSharedNotes(db, userId) ==
  IF userId = NoUser THEN <<>>
  ELSE LET shares == by_user(db, userId)
           found == SelectSeq(shares, LAMBDA share : get(db, share.noteId) # Null)
       IN  [i \in DOMAIN found |->
              LET note == get(db, found[i].noteId)
              IN  note @@ [authorName |-> authorName(note.authorId, "Unknown"),
                           permission |-> found[i].permission]]

(* args.query.trim(): the query without its leading and trailing blanks. *)
RECURSIVE trim(_)
trim(query) ==
  IF query = <<>> THEN <<>>
  ELSE IF Head(query) = " " THEN trim(Tail(query))
  ELSE IF query[Len(query)] = " " THEN trim(SubSeq(query, 1, Len(query) - 1))
  ELSE query

(* The words the text index finds in a string: the model's contents are    *)
(* the empty string or one word.                                           *)
contentWords(content) == IF content = "" THEN {} ELSE {content}

queryWords(query) == {query[i] : i \in DOMAIN query} \ {" "}

(* The ranking of the text index: one order of the notes, the same for     *)
(* every search of a call.                                                 *)
ranked(ids) ==
  [i \in 1..Cardinality(ids) |->
     CHOOSE n \in ids : Cardinality({m \in ids : m < n}) = i - 1]

(* .take(n), .slice(0, n) *)
take(rows, n) == SubSeq(rows, 1, IF Len(rows) < n THEN Len(rows) ELSE n)

(* The 10 of .take(10) and .slice(0, 10). *)
SearchLimit == 10

(* .withSearchIndex("search_content", q => q.search("content", query).eq(field, value)) *)
search_content(db, query, field, value) ==
  LET order == ranked(DOMAIN db.notes)
      Hit(n) == /\ contentWords(db.notes[n].content) \cap queryWords(query) # {}
                /\ db.notes[n][field] = value
      hits == SelectSeq(order, Hit)
  IN  [i \in DOMAIN hits |-> db.notes[hits[i]]]

(* Mutant: the concatenated results are not deduplicated. *)
uniqueResults_all(allResults) == allResults

(* allResults.filter((note, index, self) =>                                *)
(*   index === self.findIndex(n => n._id === note._id))                    *)
uniqueResults(allResults) ==
  LET findIndex(id) == CHOOSE j \in DOMAIN allResults :
                         /\ allResults[j]._id = id
                         /\ \A k \in 1..(j - 1) : allResults[k]._id # id
      kept == {i \in DOMAIN allResults : i = findIndex(allResults[i]._id)}
      order == ranked(kept)
  IN  [i \in DOMAIN order |-> allResults[order[i]]]

(* Mutant: the requester's own notes are labelled like everyone else's. *)
searchAuthorName_neverYou(note, userId) == authorName(note.authorId, "Anonymous")

(* note.authorId === userId ? "You" : (author?.name || author?.email || "Anonymous") *)
searchAuthorName(note, userId) ==
  IF note.authorId = userId THEN "You" ELSE authorName(note.authorId, "Anonymous")

searchNotes(db, userId, query) ==
  IF trim(query) = <<>> THEN <<>>
  ELSE LET publicResults == take(search_content(db, query, "isPublic", TRUE), SearchLimit) IN
  IF userId = NoUser
  THEN [i \in DOMAIN publicResults |->
          publicResults[i] @@
            [authorName |-> authorName(publicResults[i].authorId, "Anonymous")]]
  ELSE LET userResults == take(search_content(db, query, "authorId", userId), SearchLimit)
           allResults == publicResults \o userResults
           deduped == uniqueResults(allResults)
           resultsWithAuthors ==
             [i \in DOMAIN deduped |->
                deduped[i] @@ [authorName |-> searchAuthorName(deduped[i], userId)]]
       IN  take(resultsWithAuthors, SearchLimit)

(***************************************************************************)
(* Mutations.                                                              *)
(***************************************************************************)
createNote(db, userId, args, newId, now) ==
  IF userId = NoUser THEN Throw(db, "Not authenticated")
  ELSE Return([db EXCEPT !.notes = (newId :>
                 [_id |-> newId,
                  title |-> args.title,
                  content |-> IF args.content = None THEN "" ELSE args.content[1],
                  isPublic |-> IF args.isPublic = None THEN TRUE ELSE args.isPublic[1],
                  authorId |-> userId,
                  lastEditedBy |-> None,
                  lastEditedAt |-> now]) @@ @],
              Some(newId))

(* Mutant: any share on the note, whatever its permission, allows edits. *)
canEdit_anyShare(note, userId, share) == note.authorId = userId \/ share # Null

(* updateNote: let canEdit = note.authorId === userId;                     *)
(*             if (!canEdit) canEdit = share?.permission === "write"       *)
canEdit(note, userId, share) ==
  note.authorId = userId \/ (share # Null /\ share.permission = "write")

(* Mutant: the update does not record who made it. *)
updates_noEditor(note, userId, args, now) ==
  LET base == [lastEditedAt |-> now]
      u1 == IF args.title # None THEN [title |-> args.title[1]] @@ base ELSE base
      u2 == IF args.content # None THEN [content |-> args.content[1]] @@ u1 ELSE u1
  IN  IF args.isPublic # None /\ note.authorId = userId
      THEN [isPublic |-> args.isPublic[1]] @@ u2 ELSE u2

(* Mutant: isPublic is applied for every editor, not only for the author. *)
updates_anyEditor(note, userId, args, now) ==
  LET base == [lastEditedBy |-> Some(userId), lastEditedAt |-> now]
      u1 == IF args.title # None THEN [title |-> args.title[1]] @@ base ELSE base
      u2 == IF args.content # None THEN [content |-> args.content[1]] @@ u1 ELSE u1
  IN  IF args.isPublic # None THEN [isPublic |-> args.isPublic[1]] @@ u2 ELSE u2

(* updateNote: the updates object it patches the note with *)
updates(note, userId, args, now) ==
  LET base == [lastEditedBy |-> Some(userId), lastEditedAt |-> now]
      u1 == IF args.title # None THEN [title |-> args.title[1]] @@ base ELSE base
      u2 == IF args.content # None THEN [content |-> args.content[1]] @@ u1 ELSE u1
  IN  IF args.isPublic # None /\ note.authorId = userId
      THEN [isPublic |-> args.isPublic[1]] @@ u2 ELSE u2

updateNote(db, userId, args, now) ==
  IF userId = NoUser THEN Throw(db, "Not authenticated")
  ELSE LET note == get(db, args.noteId) IN
  IF note = Null THEN Throw(db, "Note not found")
  ELSE LET share == IF note.authorId = userId THEN Null
                    ELSE shareOf(db, args.noteId, userId) IN
  IF share = TooMany THEN Throw(db, ErrUnique)
  ELSE IF ~canEdit(note, userId, share)
  THEN Throw(db, "Not authorized to edit this note")
  ELSE Return(patchNote(db, args.noteId, updates(note, userId, args, now)), None)

RECURSIVE deleteShares(_, _)
(* for (const share of shares) await ctx.db.delete(share._id) *)
deleteShares(db, shares) ==
  IF shares = <<>> THEN db
  ELSE deleteShares(deleteShare(db, Head(shares)._id), Tail(shares))

(* Mutant: the note's last editor passes the author check too. *)
notAuthorOf_orEditor(note, userId) ==
  note.authorId # userId /\ note.lastEditedBy # Some(userId)

(* deleteNote: note.authorId !== userId *)
notAuthorOf(note, userId) == note.authorId # userId

(* Mutant: the note is looked up before the caller's identity is checked. *)
deleteNote_lateAuth(db, userId, noteId) ==
  LET note == get(db, noteId) IN
  IF note = Null THEN Throw(db, "Note not found")
  ELSE IF userId = NoUser THEN Throw(db, "Not authenticated")
  ELSE IF notAuthorOf(note, userId)
  THEN Throw(db, "Not authorized to delete this note")
  ELSE Return(deleteNoteDoc(deleteShares(db, by_note(db, noteId)), noteId), None)

deleteNote(db, userId, noteId) ==
  IF userId = NoUser THEN Throw(db, "Not authenticated")
  ELSE LET note == get(db, noteId) IN
  IF note = Null THEN Throw(db, "Note not found")
  ELSE IF notAuthorOf(note, userId)
  THEN Throw(db, "Not authorized to delete this note")
  ELSE Return(deleteNoteDoc(deleteShares(db, by_note(db, noteId)), noteId), None)

(* Mutant: the self-share check is missing. *)
isSelf_unchecked(userToShareWith, userId) == FALSE

(* shareNote: userToShareWith._id === userId *)
isSelf(userToShareWith, userId) == userToShareWith._id = userId

HasWriteShare(db, noteId, userId) ==
  \E i \in DOMAIN db.noteShares :
    /\ db.noteShares[i].noteId = noteId
    /\ db.noteShares[i].sharedWithId = userId
    /\ db.noteShares[i].permission = "write"

(* Mutant: a new share is inserted without looking for an existing one. *)
upsertShare_alwaysInsert(db, userId, args, sharedWithId) ==
  Return(insertShare(db, [noteId |-> args.noteId,
                          sharedWithId |-> sharedWithId,
                          permission |-> args.permission,
                          sharedBy |-> userId]),
         None)

(* shareNote: update the existing share, or create a new one *)
upsertShare(db, userId, args, sharedWithId) ==
  LET existingShare == shareOf(db, args.noteId, sharedWithId) IN
  IF existingShare = TooMany THEN Throw(db, ErrUnique)
  ELSE IF existingShare # Null
  THEN Return(patchShare(db, existingShare._id, args.permission), None)
  ELSE Return(insertShare(db, [noteId |-> args.noteId,
                               sharedWithId |-> sharedWithId,
                               permission |-> args.permission,
                               sharedBy |-> userId]),
              None)

(* Mutant: a holder of a write share may share the note too. *)
shareNote_writeHolder(db, userId, args) ==
  IF userId = NoUser THEN Throw(db, "Not authenticated")
  ELSE LET note == get(db, args.noteId) IN
  IF note = Null THEN Throw(db, "Note not found")
  ELSE IF note.authorId # userId
          /\ ~HasWriteShare(db, args.noteId, userId)
  THEN Throw(db, "Not authorized to share this note")
  ELSE LET userToShareWith == userByEmail(args.email) IN
  IF userToShareWith = TooMany THEN Throw(db, ErrUnique)
  ELSE IF userToShareWith = Null THEN Throw(db, "User not found")
  ELSE IF isSelf(userToShareWith, userId)
  THEN Throw(db, "Cannot share note with yourself")
  ELSE upsertShare(db, userId, args, userToShareWith._id)

shareNote(db, userId, args) ==
  IF userId = NoUser THEN Throw(db, "Not authenticated")
  ELSE LET note == get(db, args.noteId) IN
  IF note = Null THEN Throw(db, "Note not found")
  ELSE IF note.authorId # userId
  THEN Throw(db, "Not authorized to share this note")
  ELSE LET userToShareWith == userByEmail(args.email) IN
  IF userToShareWith = TooMany THEN Throw(db, ErrUnique)
  ELSE IF userToShareWith = Null THEN Throw(db, "User not found")
  ELSE IF isSelf(userToShareWith, userId)
  THEN Throw(db, "Cannot share note with yourself")
  ELSE upsertShare(db, userId, args, userToShareWith._id)

(***************************************************************************)
(* The state machine: the store, the id the next note gets, the time       *)
(* Date.now() reads, and the last searchNotes call with what it returned.  *)
(* A mutation that throws leaves all of them as they were.  granted is the *)
(* history of the calls: <<noteId, userId, permission>> for the most       *)
(* recent successful shareNote of each pair whose note was not deleted     *)
(* since.                                                                  *)
(***************************************************************************)
DB == [notes |-> notes, noteShares |-> noteShares]

Commit(r) ==
  /\ notes' = r.db.notes
  /\ noteShares' = r.db.noteShares
  /\ UNCHANGED lastSearch

NoSearch == [userId |-> NoUser, query |-> <<>>, results |-> <<>>]

Init ==
  /\ notes = <<>>
  /\ noteShares = <<>>
  /\ nextNoteId = 1
  /\ clock = 0
  /\ lastSearch = NoSearch
  /\ granted = {}

CreateNote ==
  \E userId \in Requesters, args \in CreateArgs :
    /\ nextNoteId <= MaxNotes
    /\ Commit(createNote(DB, userId, args, nextNoteId, clock))
    /\ nextNoteId' = IF createNote(DB, userId, args, nextNoteId, clock).error = ""
                     THEN nextNoteId + 1 ELSE nextNoteId
    /\ UNCHANGED <<clock, granted>>

UpdateNote ==
  \E userId \in Requesters, args \in UpdateArgs :
    /\ Commit(updateNote(DB, userId, args, clock))
    /\ UNCHANGED <<nextNoteId, clock, granted>>

DeleteNote ==
  \E userId \in Requesters, noteId \in NoteIds :
    /\ Commit(deleteNote(DB, userId, noteId))
    /\ granted' = IF deleteNote(DB, userId, noteId).error = ""
                  THEN {g \in granted : g[1] # noteId} ELSE granted
    /\ UNCHANGED <<nextNoteId, clock>>

ShareNote ==
  \E userId \in Requesters, args \in ShareArgs :
    /\ Commit(shareNote(DB, userId, args))
    /\ granted' =
         IF shareNote(DB, userId, args).error = ""
         THEN LET U == userByEmail(args.email)._id
              IN  {g \in granted : ~(g[1] = args.noteId /\ g[2] = U)}
                    \cup {<<args.noteId, U, args.permission>>}
         ELSE granted
    /\ UNCHANGED <<nextNoteId, clock>>

(* Time passes between calls. *)
Tick ==
  /\ clock < MaxClock
  /\ clock' = clock + 1
  /\ UNCHANGED <<notes, noteShares, nextNoteId, lastSearch, granted>>

Next == CreateNote \/ UpdateNote \/ DeleteNote \/ ShareNote \/ Tick

Spec == Init /\ [][Next]_vars

(***************************************************************************)
(* Searching: the stores are built by createNote and shareNote calls, as   *)
(* blocks of equal notes in any order, large enough for more than          *)
(* SearchLimit matches in a scope; the only step is a searchNotes call.    *)
(***************************************************************************)
BlockSizes == {1, 5, 6, 11}

BlockKinds ==
  {[userId |-> u, args |-> [title |-> "T", content |-> Some("foo"), isPublic |-> Some(p)]] :
     u \in UserIds, p \in BOOLEAN} \cup
  {[userId |-> "u1", args |-> [title |-> "T", content |-> None, isPublic |-> None]]}

Blocks == {[kind |-> k, size |-> n] : k \in BlockKinds, n \in BlockSizes}

(* The number of notes in the first k blocks. *)
RECURSIVE sizeOf(_, _)
sizeOf(blocks, k) == IF k = 0 THEN 0 ELSE sizeOf(blocks, k - 1) + blocks[k].size

(* The store after the createNote calls of the blocks, in order: note n    *)
(* is the note createNote makes for the block n falls in.                  *)
createBlocks(blocks) ==
  LET empty == [notes |-> <<>>, noteShares |-> <<>>]
      kindOf(n) == blocks[CHOOSE k \in DOMAIN blocks :
                            sizeOf(blocks, k - 1) < n /\ n <= sizeOf(blocks, k)].kind
  IN  [notes |-> [n \in 1..sizeOf(blocks, Len(blocks)) |->
                    createNote(empty, kindOf(n).userId, kindOf(n).args, n, 0).db.notes[n]],
       noteShares |-> <<>>]

(* The store after u1 shared each of its private notes with u2: the        *)
(* shares shareNote inserts, in the order of the notes.                    *)
shareAll(db) ==
  LET ids == ranked({n \in DOMAIN db.notes :
                       db.notes[n].authorId = "u1" /\ ~db.notes[n].isPublic})
  IN  [db EXCEPT !.noteShares =
         [i \in DOMAIN ids |->
            [_id |-> i, noteId |-> ids[i], sharedWithId |-> "u2",
             permission |-> "read", sharedBy |-> "u1"]]]

SearchStores ==
  LET plain == {createBlocks(bs) : bs \in UNION {[1..k -> Blocks] : k \in 1..MaxBlocks}}
  IN  plain \cup {shareAll(db) : db \in plain}

SearchInit ==
  \E db \in SearchStores :
    /\ notes = db.notes
    /\ noteShares = db.noteShares
    /\ nextNoteId = Cardinality(DOMAIN db.notes) + 1
    /\ clock = 0
    /\ lastSearch = NoSearch
    /\ granted = {<<db.noteShares[i].noteId, db.noteShares[i].sharedWithId,
                     db.noteShares[i].permission>> : i \in DOMAIN db.noteShares}

SearchNotes ==
  \E userId \in Requesters, query \in Queries :
    /\ lastSearch' = [userId |-> userId, query |-> query,
                      results |-> searchNotes(DB, userId, query)]
    /\ UNCHANGED <<notes, noteShares, nextNoteId, clock, granted>>

SpecSearch == SearchInit /\ [][SearchNotes]_vars

TypeOK ==
  /\ DOMAIN notes \subseteq 1..(nextNoteId - 1)
  /\ nextNoteId \in 1..(MaxNotes + 1)
  /\ clock \in 0..MaxClock

(***************************************************************************)
(* Properties.                                                             *)
(***************************************************************************)
Titles == {"T", "x"}

Contents == {"", "foo"}

HasShare(db, noteId, userId) ==
  \E i \in DOMAIN db.noteShares :
    db.noteShares[i].noteId = noteId /\ db.noteShares[i].sharedWithId = userId

HasShareWith(db, noteId, userId, permission) ==
  \E i \in DOMAIN db.noteShares :
    /\ db.noteShares[i].noteId = noteId
    /\ db.noteShares[i].sharedWithId = userId
    /\ db.noteShares[i].permission = permission

(* C1: a public note is visible to every requester, the anonymous one      *)
(* included, and getNote reports canEdit exactly for the note's author,    *)
(* whatever share the requester holds.                                     *)
C1_PublicVisibleOwnerEdits ==
  \A n \in DOMAIN notes : notes[n].isPublic =>
    \A R \in Requesters :
      LET r == getNote(DB, R, n) IN
        /\ r # Null
        /\ DOMAIN r = DOMAIN notes[n] \cup {"authorName", "canEdit"}
        /\ r._id = n
        /\ r.canEdit = (R = notes[n].authorId)

(* C1 witness: a public note, a non-owner holding a write share on it,     *)
(* and getNote showing it to them and to the anonymous requester without   *)
(* the right to edit.                                                      *)
C1_Witness ==
  \E n \in DOMAIN notes, R \in UserIds :
    /\ notes[n].isPublic
    /\ R # notes[n].authorId
    /\ HasShareWith(DB, n, R, "write")
    /\ getNote(DB, R, n).canEdit = FALSE
    /\ getNote(DB, NoUser, n).canEdit = FALSE
    /\ getNote(DB, notes[n].authorId, n).canEdit = TRUE

(* A requester with no access to private note n: anonymous, or neither the *)
(* author nor the sharedWithId of a share on n.                            *)
NoAccess(R, n) ==
  /\ ~notes[n].isPublic
  /\ \/ R = NoUser
     \/ R # notes[n].authorId /\ ~HasShare(DB, n, R)

(* The stores that differ from the current one only in the existence or    *)
(* the content of note n.                                                   *)
StoresDifferingIn(n) ==
  {deleteNoteDoc(DB, n)} \cup
  {[DB EXCEPT !.notes[n].title = t, !.notes[n].content = c] : t \in Titles, c \in Contents}

(* C2: for a private note the requester has no access to, getNote returns  *)
(* null, the value it returns for an id that does not exist, and every     *)
(* getNote result of that requester is the same in a store without the     *)
(* note or with other content in it.                                       *)
C2_PrivateIndistinguishable ==
  \A n \in DOMAIN notes, R \in Requesters : NoAccess(R, n) =>
    /\ getNote(DB, R, n) = Null
    /\ \A m \in NoteIds \ DOMAIN notes : getNote(DB, R, m) = getNote(DB, R, n)
    /\ \A db2 \in StoresDifferingIn(n) :
         \A m \in NoteIds : getNote(db2, R, m) = getNote(DB, R, m)

(* C2 witness: a signed-in user with a share on one note and none on a     *)
(* private note of the same author, for whom getNote of the private note   *)
(* is null as it is for an id that was never created.                      *)
C2_Witness ==
  \E n \in DOMAIN notes, k \in DOMAIN notes, R \in UserIds :
    /\ n # k
    /\ NoAccess(R, n)
    /\ HasShare(DB, k, R)
    /\ notes[k].authorId = notes[n].authorId
    /\ getNote(DB, R, k) # Null
    /\ getNote(DB, R, n) = Null

(* The rows of noteShares for the pair (noteId, userId). *)
SharesOf(db, noteId, userId) ==
  {i \in DOMAIN db.noteShares :
     db.noteShares[i].noteId = noteId /\ db.noteShares[i].sharedWithId = userId}

(* C3: under every interleaving of the four mutations, each one atomic     *)
(* step, there is at most one share per (noteId, sharedWithId) pair; a      *)
(* successful shareNote leaves exactly one share for its pair, carrying    *)
(* the permission just given, and for a pair that already had a share it   *)
(* inserts no record and changes no other share.                           *)
C3_OneSharePerPair ==
  /\ \A n \in NoteIds, u \in UserIds : Cardinality(SharesOf(DB, n, u)) <= 1
  /\ \A O \in Requesters, args \in ShareArgs :
       LET r == shareNote(DB, O, args) IN
       r.error = "" =>
         LET U == userByEmail(args.email)._id
             after == SharesOf(r.db, args.noteId, U)
         IN  /\ Cardinality(after) = 1
             /\ \A i \in after : r.db.noteShares[i].permission = args.permission
             /\ HasShare(DB, args.noteId, U) =>
                  /\ Len(r.db.noteShares) = Len(noteShares)
                  /\ \A i \in DOMAIN noteShares :
                       r.db.noteShares[i] =
                         IF i \in after THEN [noteShares[i] EXCEPT !.permission = args.permission]
                         ELSE noteShares[i]

(* C3 witness: two notes carry shares, one pair was shared with "read",    *)
(* and sharing that pair again with "write" changes the one record.        *)
C3_Witness ==
  \E i \in DOMAIN noteShares, j \in DOMAIN noteShares :
    LET s == noteShares[i]
        r == shareNote(DB, s.sharedBy,
                       [noteId |-> s.noteId, email |-> users[s.sharedWithId].email[1],
                        permission |-> "write"])
    IN  /\ noteShares[j].noteId # s.noteId
        /\ s.permission = "read"
        /\ r.error = ""
        /\ Len(r.db.noteShares) = Len(noteShares)
        /\ r.db.noteShares[i].permission = "write"

(* C4: shareNote is an idempotent upsert: for a note owned by O and the    *)
(* email of another user U, shareNote by O succeeds, and repeated with the *)
(* same arguments it leaves the store as the first call left it; with      *)
(* "read" and then with "write" it leaves exactly one share for (N, U),    *)
(* with permission "write" and sharedBy O.                                 *)
C4_ShareIdempotentUpsert ==
  \A O \in UserIds, U \in UserIds, args \in ShareArgs :
    (/\ args.noteId \in DOMAIN notes
     /\ notes[args.noteId].authorId = O
     /\ U # O
     /\ users[U].email = Some(args.email)) =>
      LET r1 == shareNote(DB, O, args)
          r2 == shareNote(r1.db, O, args)
          a == shareNote(DB, O, [args EXCEPT !.permission = "read"])
          b == shareNote(a.db, O, [args EXCEPT !.permission = "write"])
          rows == SharesOf(b.db, args.noteId, U)
      IN  /\ r1.error = "" /\ r2.error = ""
          /\ r2.db = r1.db
          /\ a.error = "" /\ b.error = ""
          /\ Cardinality(rows) = 1
          /\ \A i \in rows : /\ b.db.noteShares[i].permission = "write"
                             /\ b.db.noteShares[i].sharedBy = O

(* C4 witness: a pair with no share yet, on which shareNote "read" then    *)
(* "write" by the owner leaves one "write" share, while the owner's other  *)
(* note already has a share that a repeated call leaves as it is.          *)
C4_Witness ==
  \E n \in DOMAIN notes, i \in DOMAIN noteShares :
    LET O == notes[n].authorId
        U == noteShares[i].sharedWithId
        e == users[U].email[1]
        a == shareNote(DB, O, [noteId |-> n, email |-> e, permission |-> "read"])
        b == shareNote(a.db, O, [noteId |-> n, email |-> e, permission |-> "write"])
        again == shareNote(DB, O, [noteId |-> noteShares[i].noteId, email |-> e,
                                   permission |-> noteShares[i].permission])
    IN  /\ noteShares[i].noteId # n
        /\ noteShares[i].sharedBy = O
        /\ ~HasShare(DB, n, U)
        /\ a.error = "" /\ b.error = ""
        /\ Len(b.db.noteShares) = Len(noteShares) + 1
        /\ HasShareWith(b.db, n, U, "write")
        /\ again.error = "" /\ again.db = DB

(* C5: shareNote by a note's author with an email that resolves to the     *)
(* author fails with "Cannot share note with yourself" for both            *)
(* permissions and writes nothing, and no share of an existing note has    *)
(* the note's author as sharedWithId.                                      *)
C5_NoSelfShare ==
  /\ \A n \in DOMAIN notes, args \in ShareArgs :
       LET O == notes[n].authorId
           r == shareNote(DB, O, args)
       IN  args.noteId = n /\ users[O].email = Some(args.email) =>
             /\ r.error = "Cannot share note with yourself"
             /\ r.db = DB
  /\ \A i \in DOMAIN noteShares :
       noteShares[i].noteId \in DOMAIN notes =>
         noteShares[i].sharedWithId # notes[noteShares[i].noteId].authorId

(* C5 witness: a note that is shared with another user, whose author's     *)
(* shareNote to their own email is refused for "read" and for "write".     *)
C5_Witness ==
  \E n \in DOMAIN notes :
    LET O == notes[n].authorId IN
      /\ \E u \in UserIds : HasShare(DB, n, u)
      /\ \A p \in Permissions :
           shareNote(DB, O, [noteId |-> n, email |-> users[O].email[1], permission |-> p]).error
             = "Cannot share note with yourself"

(* The ids of the notes getSharedNotes returns. *)
SharedNoteIds(db, userId) ==
  {getSharedNotes(db, userId)[i]._id : i \in DOMAIN getSharedNotes(db, userId)}

(* C6: every share references a note that exists; a successful deleteNote  *)
(* removes the note and every share on it, leaves the other notes and      *)
(* shares, and afterwards getSharedNotes of no user contains the note.     *)
C6_NoOrphanedShares ==
  /\ \A i \in DOMAIN noteShares : noteShares[i].noteId \in DOMAIN notes
  /\ \A R \in Requesters, n \in NoteIds :
       LET r == deleteNote(DB, R, n) IN
       r.error = "" =>
         /\ DOMAIN r.db.notes = DOMAIN notes \ {n}
         /\ \A m \in DOMAIN r.db.notes : r.db.notes[m] = notes[m]
         /\ r.db.noteShares = SelectSeq(noteShares, LAMBDA s : s.noteId # n)
         /\ \A u \in Requesters : n \notin SharedNoteIds(r.db, u)
  /\ \A u \in UserIds :
       SharedNoteIds(DB, u) = {n \in DOMAIN notes : HasShare(DB, n, u)}

(* C6 witness: a note was deleted together with the share it had (the      *)
(* share id it used is gone), the other note's share is still there, and   *)
(* the share-holder's getSharedNotes lists only the other note.            *)
C6_Witness ==
  \E n \in 1..(nextNoteId - 1), k \in DOMAIN notes :
    /\ n \notin DOMAIN notes
    /\ Len(noteShares) = 1
    /\ noteShares[1]._id = 2
    /\ noteShares[1].noteId = k
    /\ SharedNoteIds(DB, noteShares[1].sharedWithId) = {k}

(* C7: deleteNote of an existing note succeeds only for its author; for    *)
(* every other signed-in requester, a holder of a write share included, it *)
(* fails with "Not authorized to delete this note" and leaves the note and *)
(* all shares as they were.                                                *)
C7_OnlyAuthorDeletes ==
  \A n \in DOMAIN notes, R \in Requesters :
    LET r == deleteNote(DB, R, n) IN
      /\ r.error = "" => R = notes[n].authorId
      /\ R \in UserIds /\ R # notes[n].authorId =>
           /\ r.error = "Not authorized to delete this note"
           /\ r.db = DB

(* C7 witness: a user who holds a write share on a note and has edited it  *)
(* is refused its deletion.                                                *)
C7_Witness ==
  \E n \in DOMAIN notes, R \in UserIds :
    /\ R # notes[n].authorId
    /\ HasShareWith(DB, n, R, "write")
    /\ notes[n].lastEditedBy = Some(R)
    /\ deleteNote(DB, R, n).error = "Not authorized to delete this note"

(* C8: updateNote by a signed-in non-owner with a read share or no share   *)
(* on the note fails with "Not authorized to edit this note" for every     *)
(* combination of supplied fields and leaves the note unchanged.           *)
C8_ReadShareCannotUpdate ==
  \A R \in UserIds, args \in UpdateArgs :
    LET n == args.noteId
        r == updateNote(DB, R, args, clock)
    IN  (/\ n \in DOMAIN notes
         /\ R # notes[n].authorId
         /\ ~HasShareWith(DB, n, R, "write")) =>
          /\ r.error = "Not authorized to edit this note"
          /\ r.db.notes[n] = notes[n]
          /\ r.db = DB

(* C8 witness: a user with a read share on one note and a write share on   *)
(* another note of the same author is refused an update of the first, at   *)
(* a time later than the note's last edit.                                 *)
C8_Witness ==
  \E n \in DOMAIN notes, k \in DOMAIN notes, R \in UserIds :
    /\ R # notes[n].authorId
    /\ notes[k].authorId = notes[n].authorId
    /\ HasShareWith(DB, n, R, "read")
    /\ HasShareWith(DB, k, R, "write")
    /\ clock > notes[n].lastEditedAt
    /\ updateNote(DB, R, [noteId |-> n, title |-> Some("x"), content |-> None,
                          isPublic |-> None], clock).error
         = "Not authorized to edit this note"

(* The notes present before and after a call whose isPublic differs. *)
VisibilityChanged(r) ==
  {n \in DOMAIN notes \cap DOMAIN r.db.notes : r.db.notes[n].isPublic # notes[n].isPublic}

(* C9: a note's isPublic changes only in a successful updateNote of that   *)
(* note by its author; updateNote by a non-owner with a write share that   *)
(* supplies isPublic succeeds, applies the supplied title and content and  *)
(* leaves isPublic as it was.                                              *)
C9_OnlyAuthorChangesVisibility ==
  \A R \in Requesters :
    /\ \A args \in UpdateArgs :
         LET n == args.noteId
             r == updateNote(DB, R, args, clock)
         IN  /\ VisibilityChanged(r) # {} =>
                  /\ r.error = ""
                  /\ VisibilityChanged(r) = {n}
                  /\ R = notes[n].authorId
             /\ (/\ n \in DOMAIN notes
                 /\ R # notes[n].authorId
                 /\ HasShareWith(DB, n, R, "write")
                 /\ args.isPublic # None) =>
                  /\ r.error = ""
                  /\ r.db.notes[n].isPublic = notes[n].isPublic
                  /\ r.db.notes[n].title =
                       IF args.title # None THEN args.title[1] ELSE notes[n].title
                  /\ r.db.notes[n].content =
                       IF args.content # None THEN args.content[1] ELSE notes[n].content
    /\ \A args \in CreateArgs :
         VisibilityChanged(createNote(DB, R, args, nextNoteId, clock)) = {}
    /\ \A n \in NoteIds : VisibilityChanged(deleteNote(DB, R, n)) = {}
    /\ \A args \in ShareArgs : VisibilityChanged(shareNote(DB, R, args)) = {}

(* C9 witness: a private note that a write-share holder has edited, whose  *)
(* update with isPublic = true and a new content succeeds, applies the     *)
(* content and leaves the note private.                                    *)
C9_Witness ==
  \E n \in DOMAIN notes, R \in UserIds :
    LET r == updateNote(DB, R, [noteId |-> n, title |-> None, content |-> Some("foo"),
                                isPublic |-> Some(TRUE)], clock)
    IN  /\ R # notes[n].authorId
        /\ HasShareWith(DB, n, R, "write")
        /\ notes[n].lastEditedBy = Some(R)
        /\ notes[n].title = "x"
        /\ notes[n].content = ""
        /\ ~notes[n].isPublic
        /\ r.error = ""
        /\ r.db.notes[n].content = "foo"
        /\ ~r.db.notes[n].isPublic

(* C10: for every signed-in requester and existing note, updateNote        *)
(* succeeds exactly when getNote returns the note with canEdit = true, and *)
(* fails with "Not authorized to edit this note" otherwise.                *)
C10_UpdateIffCanEdit ==
  \A R \in UserIds, args \in UpdateArgs :
    LET n == args.noteId
        g == getNote(DB, R, n)
        r == updateNote(DB, R, args, clock)
    IN  n \in DOMAIN notes =>
          /\ r.error = "" <=> ("canEdit" \in DOMAIN g /\ g.canEdit)
          /\ r.error # "" => r.error = "Not authorized to edit this note"

(* The results of every mutation call a requester can make in this state. *)
MutationResults(R) ==
  {createNote(DB, R, args, nextNoteId, clock) : args \in CreateArgs} \cup
  {updateNote(DB, R, args, clock) : args \in UpdateArgs} \cup
  {deleteNote(DB, R, n) : n \in NoteIds} \cup
  {shareNote(DB, R, args) : args \in ShareArgs}

(* C11: every mutation of the anonymous requester fails with "Not          *)
(* authenticated", whether or not the note it names exists, and every      *)
(* failing mutation call leaves the notes and the shares as they were.     *)
C11_FailuresWriteNothing ==
  /\ \A r \in MutationResults(NoUser) : r.error = "Not authenticated"
  /\ \A R \in Requesters : \A r \in MutationResults(R) :
       r.error # "" => r.db.notes = notes /\ r.db.noteShares = noteShares

(* C11 witness: a store with a note, a share and an id that has no note,  *)
(* in which the five kinds of failure all occur and the anonymous          *)
(* requester is refused on the note and on the id without one.             *)
C11_Witness ==
  \E n \in DOMAIN notes, m \in NoteIds \ DOMAIN notes :
    LET O == notes[n].authorId IN
      /\ noteShares # <<>>
      /\ \A k \in {n, m} : deleteNote(DB, NoUser, k).error = "Not authenticated"
      /\ deleteNote(DB, O, m).error = "Note not found"
      /\ \E R \in UserIds : deleteNote(DB, R, n).error = "Not authorized to delete this note"
      /\ shareNote(DB, O, [noteId |-> n, email |-> "nobody@x", permission |-> "read"]).error
           = "User not found"
      /\ shareNote(DB, O, [noteId |-> n, email |-> users[O].email[1],
                           permission |-> "read"]).error
           = "Cannot share note with yourself"

(* The ids of a list of results, in order. *)
IdsOf(results) == [i \in DOMAIN results |-> results[i]._id]

(* Note n has a word of the query in its content. *)
Matches(n, query) ==
  \E i \in DOMAIN query : query[i] # " " /\ query[i] = notes[n].content

(* C12: for every requester and query searchNotes returns at most 10       *)
(* results, no note twice, each a note of the store that matches the query *)
(* and is public or authored by the requester; for the anonymous requester *)
(* every result is public; a private note that is only shared with the     *)
(* requester is never returned; a blank query returns the empty list.      *)
C12_SearchVisibleOnly ==
  \A R \in Requesters, q \in Queries :
    LET res == searchNotes(DB, R, q) IN
      /\ (\A i \in DOMAIN q : q[i] = " ") => res = <<>>
      /\ Len(res) <= 10
      /\ \A i \in DOMAIN res, j \in DOMAIN res : res[i]._id = res[j]._id => i = j
      /\ \A i \in DOMAIN res :
           LET n == res[i]._id IN
             /\ n \in DOMAIN notes
             /\ \A f \in DOMAIN notes[n] : res[i][f] = notes[n][f]
             /\ Matches(n, q)
             /\ notes[n].isPublic \/ notes[n].authorId = R
             /\ R = NoUser => notes[n].isPublic
      /\ \A n \in DOMAIN notes :
           (~notes[n].isPublic /\ notes[n].authorId # R /\ HasShare(DB, n, R)) =>
             \A i \in DOMAIN res : res[i]._id # n

(* C12 witness: u2 searched "foo" in a store where u1's matching private   *)
(* notes are shared with u2 and more than 10 public notes match, and got   *)
(* 10 results; the anonymous requester gets 10 as well.                    *)
C12_Witness ==
  /\ lastSearch.userId = "u2"
  /\ lastSearch.query = <<" ", "foo">>
  /\ Len(lastSearch.results) = 10
  /\ Cardinality({n \in DOMAIN notes : notes[n].isPublic /\ Matches(n, <<"foo">>)}) > 10
  /\ \E n \in DOMAIN notes :
       /\ ~notes[n].isPublic /\ notes[n].authorId = "u1" /\ Matches(n, <<"foo">>)
       /\ HasShare(DB, n, "u2")
  /\ Len(searchNotes(DB, NoUser, <<"foo">>)) = 10

(* The first k elements of a sequence. *)
FirstOf(seq, k) == [i \in 1..(IF Len(seq) < k THEN Len(seq) ELSE k) |-> seq[i]]

(* The reference result of searchNotes for a signed-in requester: the      *)
(* first 10 public matches, then those of the requester's first 10 matches *)
(* that are not among them, cut to 10, each labelled "You" for the         *)
(* requester's own notes and else with the author's name, else email, else *)
(* "Anonymous".                                                            *)
ReferenceSearch(R, q) ==
  LET public == FirstOf(ranked({n \in DOMAIN notes : notes[n].isPublic /\ Matches(n, q)}), 10)
      own == FirstOf(ranked({n \in DOMAIN notes : notes[n].authorId = R /\ Matches(n, q)}), 10)
      seen == {public[i] : i \in DOMAIN public}
      merged == FirstOf(public \o SelectSeq(own, LAMBDA n : n \notin seen), 10)
      Label(n) ==
        LET a == users[notes[n].authorId] IN
          IF notes[n].authorId = R THEN "You"
          ELSE IF a.name # None THEN a.name[1]
          ELSE IF a.email # None THEN a.email[1] ELSE "Anonymous"
  IN  [i \in DOMAIN merged |-> notes[merged[i]] @@ [authorName |-> Label(merged[i])]]

C14_ShareGrantsAccess ==
  \A g \in granted :
    LET n == g[1]
        U == g[2]
        p == g[3]
    IN  /\ n \in DOMAIN notes
        /\ ~notes[n].isPublic =>
             LET O == notes[n].authorId
                 asU == getNote(DB, U, n)
                 asO == getNote(DB, O, n)
             IN  /\ U # O
                 /\ asU # Null
                 /\ \A f \in DOMAIN notes[n] : asU[f] = notes[n][f]
                 /\ asU.canEdit = (p = "write")
                 /\ asU.authorName =
                      IF users[O].name # None THEN users[O].name[1] ELSE users[O].email[1]
                 /\ asU.authorName # "You"
                 /\ p = "read" =>
                      \A args \in UpdateArgs : args.noteId = n =>
                        /\ updateNote(DB, U, args, clock).error
                             = "Not authorized to edit this note"
                        /\ updateNote(DB, U, args, clock).db = DB
                 /\ asO # Null
                 /\ asO.canEdit
                 /\ asO.authorName = "You"

(* C14 witness: u1's private note, edited by u1, whose most recent share   *)
(* with u2 is for "read": getNote shows it to u2 with u1's name and        *)
(* without the right to edit, and to u1 as "You".                          *)
C14_Witness ==
  \E n \in DOMAIN notes :
    /\ <<n, "u2", "read">> \in granted
    /\ notes[n].authorId = "u1"
    /\ ~notes[n].isPublic
    /\ notes[n].content = "foo"
    /\ notes[n].title = "x"
    /\ notes[n].lastEditedBy = Some("u1")
    /\ getNote(DB, "u2", n).authorName = "Ann"
    /\ getNote(DB, "u2", n).canEdit = FALSE
    /\ getNote(DB, "u1", n).authorName = "You"

(* C15: a successful updateNote sets the note's lastEditedBy to the        *)
(* requester and lastEditedAt to the time of the call, changes title and   *)
(* content only when they are supplied, and changes no other note and no   *)
(* share; createNote sets authorId to the creator and no mutation changes  *)
(* the authorId of a note.                                                 *)
C15_UpdateFrame ==
  \A R \in Requesters :
    /\ \A args \in UpdateArgs :
         LET n == args.noteId
             r == updateNote(DB, R, args, clock)
         IN  r.error = "" =>
               /\ DOMAIN r.db.notes = DOMAIN notes
               /\ DOMAIN r.db.notes[n] = DOMAIN notes[n]
               /\ r.db.notes[n].lastEditedBy = Some(R)
               /\ r.db.notes[n].lastEditedAt = clock
               /\ r.db.notes[n].title =
                    IF args.title = None THEN notes[n].title ELSE args.title[1]
               /\ r.db.notes[n].content =
                    IF args.content = None THEN notes[n].content ELSE args.content[1]
               /\ args.isPublic = None => r.db.notes[n].isPublic = notes[n].isPublic
               /\ r.db.notes[n]._id = n
               /\ \A m \in DOMAIN notes \ {n} : r.db.notes[m] = notes[m]
               /\ r.db.noteShares = noteShares
    /\ \A args \in CreateArgs :
         LET r == createNote(DB, R, args, nextNoteId, clock) IN
         r.error = "" => r.db.notes[nextNoteId].authorId = R
    /\ \A r \in MutationResults(R) :
         \A m \in DOMAIN notes \cap DOMAIN r.db.notes :
           r.db.notes[m].authorId = notes[m].authorId

(* C15 witness: a note with a new title and its first content, last edited *)
(* by a holder of a write share later than the other note, which nobody    *)
(* edited.                                                                 *)
C15_Witness ==
  \E n \in DOMAIN notes, m \in DOMAIN notes, R \in UserIds :
    /\ n # m
    /\ R # notes[n].authorId
    /\ HasShareWith(DB, n, R, "write")
    /\ notes[n].lastEditedBy = Some(R)
    /\ notes[n].lastEditedAt = 1
    /\ notes[n].title = "x"
    /\ notes[n].content = ""
    /\ notes[m].lastEditedBy = None
    /\ notes[m].lastEditedAt = 0

(* C16: shareNote by a signed-in requester who is not the note's author,   *)
(* a holder of a write share included, fails with "Not authorized to share *)
(* this note" whether or not the email belongs to a user, and leaves the   *)
(* store as it was; every share references an existing note and carries    *)
(* that note's authorId as sharedBy.                                       *)
C16_OnlyAuthorShares ==
  /\ \A R \in UserIds, args \in ShareArgs :
       args.noteId \in DOMAIN notes /\ R # notes[args.noteId].authorId =>
         /\ shareNote(DB, R, args).error = "Not authorized to share this note"
         /\ shareNote(DB, R, args).db = DB
  /\ \A R \in Requesters, args \in ShareArgs :
       shareNote(DB, R, args).error = "" => R = notes[args.noteId].authorId
  /\ \A i \in DOMAIN noteShares :
       /\ noteShares[i].noteId \in DOMAIN notes
       /\ noteShares[i].sharedBy = notes[noteShares[i].noteId].authorId

(* C16 witness: the holder of a write share on a note is refused when      *)
(* sharing it with the email of a user and with an email of nobody, in a   *)
(* store where the other user has made a share as well.                    *)
C16_Witness ==
  \E n \in DOMAIN notes, R \in UserIds :
    /\ R # notes[n].authorId
    /\ HasShareWith(DB, n, R, "write")
    /\ \E e \in Emails : userByEmail(e) \notin {Null, TooMany}
         /\ userByEmail(e)._id # R
         /\ shareNote(DB, R, [noteId |-> n, email |-> e, permission |-> "read"]).error
              = "Not authorized to share this note"
    /\ shareNote(DB, R, [noteId |-> n, email |-> "nobody@x", permission |-> "write"]).error
         = "Not authorized to share this note"
    /\ \E i \in DOMAIN noteShares : noteShares[i].sharedBy = R

IsShare(db, s) == \E j \in DOMAIN db.noteShares : db.noteShares[j] = s

(* Seen from the calls a state allows: the share s survives, as it is,     *)
(* every call but a successful deleteNote of its note and the author's     *)
(* shareNote for its pair; no createNote and no updateNote touches a       *)
(* share; after the author makes the note public and private again, the    *)
(* holder of s reads it with the right to edit it had before.              *)
C17_Calls ==
  \A i \in DOMAIN noteShares :
    LET s == noteShares[i]
        n == s.noteId
        U == s.sharedWithId
        O == notes[n].authorId
    IN  \A R \in Requesters :
          /\ \A args \in CreateArgs :
               createNote(DB, R, args, nextNoteId, clock).db.noteShares = noteShares
          /\ \A args \in UpdateArgs :
               updateNote(DB, R, args, clock).db.noteShares = noteShares
          /\ \A m \in NoteIds :
               LET r == deleteNote(DB, R, m) IN
               m # n \/ r.error # "" => IsShare(r.db, s) /\ n \in DOMAIN r.db.notes
          /\ \A args \in ShareArgs :
               LET r == shareNote(DB, R, args)
                   T == userByEmail(args.email)
               IN  /\ HasShare(r.db, n, U)
                   /\ ~IsShare(r.db, s) =>
                        /\ R = O /\ args.noteId = n /\ r.error = ""
                        /\ T \notin {Null, TooMany} /\ T._id = U
                        /\ args.permission # s.permission
                        /\ HasShareWith(r.db, n, U, args.permission)
          /\ \A b \in BOOLEAN :
               LET r1 == updateNote(DB, O, [noteId |-> n, title |-> None,
                                            content |-> None, isPublic |-> Some(b)], clock)
                   r2 == updateNote(r1.db, O, [noteId |-> n, title |-> None,
                                               content |-> None, isPublic |-> Some(~b)], clock)
                   r3 == updateNote(r2.db, O, [noteId |-> n, title |-> None,
                                               content |-> None, isPublic |-> Some(b)], clock)
               IN  /\ r1.error = "" /\ r2.error = "" /\ r3.error = ""
                   /\ r1.db.notes[n].isPublic = b /\ r2.db.notes[n].isPublic = ~b
                   /\ r1.db.noteShares = noteShares /\ r2.db.noteShares = noteShares
                   /\ getNote(r3.db, U, n) # Null
                   /\ getNote(r3.db, U, n).canEdit = getNote(r1.db, U, n).canEdit
                   /\ ~b => getNote(r1.db, U, n).canEdit = (s.permission = "write")

(* Seen from the steps taken: a pair that has a share keeps one as long as *)
(* its note exists, its permission changes only in a step that records a   *)
(* successful shareNote for the pair with the new permission, and a step   *)
(* that changes isPublic leaves the shares as they were.                   *)
C17_Step ==
  /\ \A i \in DOMAIN noteShares :
       LET s == noteShares[i]  n == s.noteId  U == s.sharedWithId IN
       n \in DOMAIN notes' =>
         /\ \E j \in DOMAIN noteShares' :
              noteShares'[j].noteId = n /\ noteShares'[j].sharedWithId = U
         /\ \A j \in DOMAIN noteShares' :
              /\ noteShares'[j].noteId = n
              /\ noteShares'[j].sharedWithId = U
              /\ noteShares'[j].permission # s.permission
              => /\ <<n, U, noteShares'[j].permission>> \in granted'
                 /\ <<n, U, noteShares'[j].permission>> \notin granted
  /\ \A n \in DOMAIN notes \cap DOMAIN notes' :
       notes'[n].isPublic # notes[n].isPublic => noteShares' = noteShares

(* C17: while its note exists a share is never removed: each pair that has *)
(* a share has one in every later state until deleteNote removes the note, *)
(* only the author's shareNote for the pair changes its permission, and    *)
(* updateNote changing isPublic either way leaves the shares untouched, so *)
(* the holder's access is back once a note made public is private again.   *)
C17_GrantsPersist == [][C17_Step]_vars /\ []C17_Calls

(* C17 witness: a private note, edited by its author after its creation,   *)
(* that the holder of a write share on it, the author of the other note,   *)
(* reads with the right to edit.                                           *)
C17_Witness ==
  \E n \in DOMAIN notes, m \in DOMAIN notes, U \in UserIds :
    /\ n # m
    /\ ~notes[n].isPublic
    /\ notes[n].lastEditedBy = Some(notes[n].authorId)
    /\ notes[n].lastEditedAt = 1
    /\ notes[m].authorId = U
    /\ U # notes[n].authorId
    /\ HasShareWith(DB, n, U, "write")
    /\ getNote(DB, U, n) # Null
    /\ getNote(DB, U, n).canEdit

====
